---- MODULE Spec2Model ----
(***************************************************************************)
(* GW2API WvW tracking core: the guild ledger of src/wvw_tracker.py       *)
(* (WvWTracker) and the snapshot stores of src/app.py                      *)
(* (record_kdr_snapshot, record_activity_snapshot).                        *)
(*                                                                         *)
(* Time.  datetime.utcnow() is the variable now, counted in ticks.  A      *)
(* minute is TicksPerMinute ticks.  isoformat() prints the fractional part *)
(* of an instant only when it is not zero; in the model the whole part of  *)
(* an instant is t \div TicksPerMinute and its fraction t % TicksPerMinute *)
(* (the minute stands for the second of the program's timestamps).         *)
(***************************************************************************)
EXTENDS Integers, Sequences, FiniteSets, TLC

\* ------------------------------------------------------------------ bounds
MaxTime == 2
MaxOps == 2
MaxRecords == 2
MaxWeeks == 1
MaxSnapshots == 2
MaxKills == 10
MaxDeaths == 40
TicksPerMinute == 2

\* ------------------------------------------------------- program constants
DefaultDays == 7
ImmediateDays == 0
MaxTrackedBeforeCleanup == 2
TrackedWorld == 1020
MinutesPerDay == 1440
TicksPerDay == MinutesPerDay * TicksPerMinute

\* ------------------------------------------------------------------ values
Procs == {"p1", "p2"}
Colors == {"red", "green", "blue"}
Missing == "<missing>"
NoWorld == [set |-> FALSE, id |-> 0]
World(w) == [set |-> TRUE, id |-> w]

\* A dict key that is absent or holds None, "" (all falsy in Python).
Falsy(v) == v \in {Missing, ""}

\* match_data['end_time'] as the API or a caller gives it: missing, a string
\* datetime.fromisoformat rejects, or the UTC instant a "...Z" string names.
EndMissing == [kind |-> "missing", t |-> 0]
EndBad == [kind |-> "unparsable", t |-> 0]
EndAt(t) == [kind |-> "time", t |-> t]

EmptyDict == << >>

Lower(s) ==
    CASE s = "Red" -> "red"
      [] s = "Green" -> "green"
      [] s = "Blue" -> "blue"
      [] s = "Neutral" -> "neutral"
      [] OTHER -> s

Obj(type, owner, claimed_by, guild_name, guild_tag) ==
    [type |-> type, owner |-> owner, claimed_by |-> claimed_by,
     guild_name |-> guild_name, guild_tag |-> guild_tag]

TeamInfo(name, id, display, linked) ==
    [main_world_name |-> name, main_world_id |-> id,
     display_name |-> display, linked_worlds |-> linked]

\* ------------------------------------------------- inputs of update_match
\* Enriched matches as build_enriched_match hands them over: every objective
\* has type and owner; claimed_by may be None; guild_name only when resolved.
MatchA1 ==
    [id |-> "1-1", start_time |-> EndAt(-2), end_time |-> EndAt(1 - ImmediateDays * TicksPerDay),
     worlds |-> [c \in {"red"} |-> TeamInfo("Anvil Rock", World(1001), "Anvil Rock", << >>)],
     maps |-> << [type |-> "Center",
                  objectives |-> << Obj("Keep", "Red", "g1", "Alpha", "A"),
                                    Obj("Camp", "Blue", Missing, Missing, Missing) >>] >>]

MatchA2 ==
    [id |-> "1-1", start_time |-> EndAt(0), end_time |-> EndAt(DefaultDays * TicksPerDay),
     worlds |-> [c \in {"red", "blue"} |->
                   IF c = "red"
                   THEN TeamInfo("Anvil Rock", World(1001), Missing,
                                 << [id |-> 1002, name |-> "Borlis Pass"] >>)
                   ELSE TeamInfo("Yaks Bend", World(1003), "Team Blue", << >>)],
     maps |-> << [type |-> "RedHome",
                  objectives |-> << Obj("Tower", "Red", "g1", "Alpha", "A"),
                                    Obj("Keep", "Blue", "g2", "Beta", "B"),
                                    Obj("Camp", "Green", "g3", Missing, Missing),
                                    Obj("Keep", "Neutral", "g2", "Beta", "B") >>],
                 [type |-> "Center",
                  objectives |-> << Obj("Keep", "Red", "g1", "Alpha", "A") >>] >>]

MatchB ==
    [id |-> "1-2", start_time |-> EndAt(-2 * DefaultDays * TicksPerDay),
     end_time |-> EndAt(-DefaultDays * TicksPerDay),
     worlds |-> EmptyDict,
     maps |-> << [type |-> "GreenHome",
                  objectives |-> << Obj("Keep", "Green", "g2", "Beta", "B") >>] >>]

MatchB2 ==
    [id |-> "1-2", start_time |-> EndMissing, end_time |-> EndBad,
     worlds |-> EmptyDict,
     maps |-> << [type |-> "Center",
                  objectives |-> << Obj("Castle", "Green", "g1", "Alpha", "A") >>] >>]

MatchC ==
    [id |-> "2-1", start_time |-> EndMissing, end_time |-> EndMissing,
     worlds |-> EmptyDict,
     maps |-> << [type |-> "BlueHome",
                  objectives |-> << Obj("Camp", "Blue", "g1", "Alpha", "A") >>] >>]

NoMatch ==
    [id |-> "", start_time |-> EndMissing, end_time |-> EndMissing,
     worlds |-> EmptyDict, maps |-> << >>]

MatchIds == {"1-1", "1-2", "2-1"}

\* The calls of update_match: (match_data, world_id).
Call(md, w) == [match_data |-> md, world_id |-> w]
Calls ==
    {Call(MatchA1, World(TrackedWorld)), Call(MatchA2, NoWorld), Call(MatchB, NoWorld),
     Call(MatchB2, World(TrackedWorld)), Call(MatchC, NoWorld)}

\* --------------------------------------------------- WvWTracker.update_match
\* A dict as a function; d[k] = v added or overwritten.
Put(d, k, v) == [x \in DOMAIN d \cup {k} |-> IF x = k THEN v ELSE d[x]]

Has(seq, x) == \E i \in 1..Len(seq) : seq[i] = x

\* A ledger that counted sightings: every sighting appended.
AppendAlways(seq, x) == Append(seq, x)

\* lines 162-166: append when not already present.
AppendNew(seq, x) == IF Has(seq, x) THEN seq ELSE Append(seq, x)

NewTeam == [main_world |-> Missing, main_world_id |-> NoWorld, display_name |-> Missing,
            linked_worlds |-> << >>, guilds |-> EmptyDict]

\* lines 103-115: the record of a match seen for the first time.
NewMatchAlways(tracked, md, world_id, current_time) ==
    Put(tracked, md.id,
        [match_id |-> md.id, start_time |-> md.start_time, end_time |-> md.end_time,
         first_seen |-> current_time, last_updated |-> current_time,
         world_id |-> world_id, teams |-> [c \in Colors |-> NewTeam]])

\* lines 102-115.
NewMatch(tracked, md, world_id, current_time) ==
    IF md.id \notin DOMAIN tracked
    THEN NewMatchAlways(tracked, md, world_id, current_time)
    ELSE tracked

\* lines 121-130: team metadata of the colors the input names.
UpdateTeam(team, team_info) ==
    [team EXCEPT !.main_world = team_info.main_world_name,
                 !.main_world_id = team_info.main_world_id,
                 !.display_name = IF team_info.display_name = Missing
                                  THEN team_info.main_world_name
                                  ELSE team_info.display_name,
                 !.linked_worlds = team_info.linked_worlds]

UpdateTeams(teams, md) ==
    [c \in Colors |-> IF c \in DOMAIN md.worlds THEN UpdateTeam(teams[c], md.worlds[c])
                       ELSE teams[c]]

\* lines 147-155.
NewGuild(obj, current_time) ==
    [id |-> obj.claimed_by, name |-> obj.guild_name,
     tag |-> IF obj.guild_tag = Missing THEN "" ELSE obj.guild_tag,
     first_seen |-> current_time, last_seen |-> current_time,
     objective_types |-> << >>, maps_seen |-> << >>]

\* lines 145-157: the claim record of the guild, created on first sight.
GuildAlwaysNew(guilds, obj, current_time) == NewGuild(obj, current_time)

GuildOrNew(guilds, obj, current_time) ==
    IF obj.claimed_by \in DOMAIN guilds THEN guilds[obj.claimed_by]
    ELSE NewGuild(obj, current_time)

\* lines 138-166: one objective of one map.
ClaimObjective(teams, obj, map_type, current_time) ==
    IF Falsy(obj.claimed_by) \/ Falsy(obj.guild_name) THEN teams
    ELSE LET owner == Lower(obj.owner) IN
         IF owner \notin Colors THEN teams
         ELSE LET guilds == teams[owner].guilds
                  g0 == GuildOrNew(guilds, obj, current_time)
                  g1 == [g0 EXCEPT !.last_seen = current_time,
                                   !.objective_types = AppendNew(@, obj.type),
                                   !.maps_seen = AppendNew(@, map_type)]
              IN [teams EXCEPT ![owner].guilds = Put(guilds, obj.claimed_by, g1)]

\* line 137: the objectives of one map, in order.
RECURSIVE ClaimObjectives(_, _, _, _)
ClaimObjectives(teams, objs, map_type, current_time) ==
    IF objs = << >> THEN teams
    ELSE ClaimObjectives(ClaimObjective(teams, Head(objs), map_type, current_time),
                         Tail(objs), map_type, current_time)

\* line 134: the maps of the input, in order.
RECURSIVE ClaimMaps(_, _, _)
ClaimMaps(teams, maps, current_time) ==
    IF maps = << >> THEN teams
    ELSE ClaimMaps(ClaimObjectives(teams, Head(maps).objectives, Head(maps).type,
                                   current_time),
                   Tail(maps), current_time)

\* lines 101-166: the in-memory merge of update_match.
MergeMatchTakesInput(tracked, md, world_id, current_time) ==
    LET t1 == NewMatch(tracked, md, world_id, current_time)
        m1 == [t1[md.id] EXCEPT !.last_updated = current_time,
                                !.start_time = md.start_time,
                                !.end_time = md.end_time]
        m2 == [m1 EXCEPT !.teams = UpdateTeams(@, md)]
        m3 == [m2 EXCEPT !.teams = ClaimMaps(@, md.maps, current_time)]
    IN Put(t1, md.id, m3)

MergeMatch(tracked, md, world_id, current_time) ==
    LET t1 == NewMatch(tracked, md, world_id, current_time)
        m1 == [t1[md.id] EXCEPT !.last_updated = current_time]
        m2 == [m1 EXCEPT !.teams = UpdateTeams(@, md)]
        m3 == [m2 EXCEPT !.teams = ClaimMaps(@, md.maps, current_time)]
    IN Put(t1, md.id, m3)

\* ------------------------------------------- WvWTracker.cleanup_old_matches
\* line 206.
CutoffWithoutDays(t, days) == t

Cutoff(t, days) == t - days * TicksPerDay

\* lines 210-219: a missing end_time is skipped, an unparsable one raises
\* ValueError or AttributeError, which is swallowed.
RemoveUnlessFuture(match, cutoff) ==
    match.end_time.kind # "time" \/ match.end_time.t < cutoff

RemoveThroughCutoff(match, cutoff) ==
    match.end_time.kind = "time" /\ match.end_time.t <= cutoff

ShouldRemove(match, cutoff) ==
    match.end_time.kind = "time" /\ match.end_time.t < cutoff

\* lines 208-219.
ToRemove(tracked, cutoff) == {m \in DOMAIN tracked : ShouldRemove(tracked[m], cutoff)}

\* lines 221-222.
Without(tracked, ids) == [m \in DOMAIN tracked \ ids |-> tracked[m]]

\* ------------------------------------------------------------------- state
VARIABLES
    now,        \* datetime.utcnow(), in ticks
    file,       \* wvw_data/current_match.json: [state, data]
    sh,         \* the holders of flock LOCK_SH on the ledger file
    ex,         \* the holder of flock LOCK_EX on the ledger file
    proc,       \* per caller (thread or process): position and locals
    nops,       \* operations started so far
    created,    \* history: how often each match ID's record was initialised
    completed,  \* history: the update_match calls that returned
    expired     \* history: the match IDs some cleanup put into to_remove

trackerVars == <<file, sh, ex, proc, nops, created, completed, expired>>

VARIABLES
    store,      \* kdr_history.json, activity_history.json: [state, data]
    lock,       \* kdr_history_lock, activity_history_lock: the holder
    thr,        \* per thread: position and locals of its record call
    nrecs,      \* record calls started so far
    appended,   \* history: snapshots appended, per store and match
    pruned      \* history: snapshots dropped by retention, per store and match

storeVars == <<store, lock, thr, nrecs, appended, pruned>>

VARIABLES
    live,       \* what get_wvw_match_by_world currently answers for the world
    chart,      \* the latest chart response (get_wvw_kdr / get_wvw_activity)
    chart0,     \* the chart response before it
    loop,       \* kdr_tracking_loop: position, what it attempted
    req         \* GW2API._request: position, attempt, what the server answered

webVars == <<live, chart, chart0, loop, req>>


FileAbsent == [state |-> "absent", data |-> EmptyDict]
FileEmpty == [state |-> "empty", data |-> EmptyDict]
FilePartial == [state |-> "partial", data |-> EmptyDict]
FileValid(d) == [state |-> "valid", data |-> d]

\* What the file holds for a reader that parses it.
Ledger == IF file.state = "valid" THEN file.data ELSE EmptyDict

IdleProc ==
    [pc |-> "idle", stack |-> << >>, op |-> "none",
     call |-> Call(NoMatch, NoWorld), arg |-> "", days |-> 0,
     current_time |-> 0, tracked |-> EmptyDict, mode |-> "", cutoff |-> 0,
     removed |-> 0, match_track |-> EmptyDict, res_ids |-> {}, res_id |-> Missing,
     pre |-> EmptyDict, base |-> EmptyDict, started |-> 0,
     save_failed |-> FALSE, load_failed |-> FALSE, saw_bad |-> FALSE]

\* A return: to the caller's next statement, or out of the operation.
Return(pr) ==
    IF pr.stack = << >> THEN [pr EXCEPT !.pc = "done"]
    ELSE [pr EXCEPT !.pc = Head(pr.stack), !.stack = Tail(pr.stack)]

\* An exception no frame catches: it leaves update_match / cleanup_old_matches /
\* the reader (wvw_tracker.py has no handler above _load and _save).
Raise(pr) == [pr EXCEPT !.pc = "raised", !.stack = << >>]

\* Ledgers an earlier run of the program left on disk.
SeedOne == MergeMatch(EmptyDict, MatchA1, World(TrackedWorld), -1)
SeedThree ==
    MergeMatch(MergeMatch(MergeMatch(EmptyDict, MatchB, NoWorld, -3),
                          MatchA1, World(TrackedWorld), -2),
               MatchC, NoWorld, -1)

TrackerInit(files) ==
    /\ now = 0
    /\ file \in files
    /\ sh = {}
    /\ ex = {}
    /\ proc = [p \in Procs |-> IdleProc]
    /\ nops = 0
    /\ created = [m \in MatchIds |-> IF m \in DOMAIN Ledger THEN 1 ELSE 0]
    /\ completed = {}
    /\ expired = {}

\* ---------------------------------------------------------------- the clock
Tick ==
    /\ now < MaxTime
    /\ now' = now + 1
    /\ UNCHANGED <<trackerVars, storeVars, webVars>>

\* ------------------------------------------------------- operations started
\* update_match, lines 89-93.
StartUpdate(p, c) ==
    /\ proc[p].pc = "idle"
    /\ nops < MaxOps
    /\ nops' = nops + 1
    /\ proc' = [proc EXCEPT ![p] = [IdleProc EXCEPT !.pc = "load",
                                       !.stack = << "um_loaded" >>,
                                       !.op = "update_match", !.call = c,
                                       !.current_time = now, !.pre = Ledger,
                                       !.started = now]]
    /\ UNCHANGED <<storeVars, webVars, now, file, sh, ex, created, completed, expired>>

\* cleanup_old_matches, line 205.
StartCleanup(p, d) ==
    /\ proc[p].pc = "idle"
    /\ nops < MaxOps
    /\ nops' = nops + 1
    /\ proc' = [proc EXCEPT ![p] = [IdleProc EXCEPT !.pc = "load",
                                       !.stack = << "cl_loaded" >>,
                                       !.op = "cleanup_old_matches", !.days = d,
                                       !.pre = Ledger, !.started = now]]
    /\ UNCHANGED <<storeVars, webVars, now, file, sh, ex, created, completed, expired>>

ReaderOps == {"get_match_summary", "get_active_matches", "get_current_match_id"}

\* get_match_summary (175), get_active_matches (229), get_current_match_id (248).
StartRead(p, o, m) ==
    /\ proc[p].pc = "idle"
    /\ nops < MaxOps
    /\ nops' = nops + 1
    /\ proc' = [proc EXCEPT ![p] = [IdleProc EXCEPT !.pc = "load",
                                       !.stack = << "rd_loaded" >>,
                                       !.op = o, !.arg = m, !.pre = Ledger,
                                       !.started = now]]
    /\ UNCHANGED <<storeVars, webVars, now, file, sh, ex, created, completed, expired>>

\* -------------------------------------------------------- _load_match_data
\* line 37, and the open of line 39.
LoadExists(p) ==
    /\ proc[p].pc = "load"
    /\ proc' = [proc EXCEPT ![p] =
                   IF file.state = "absent"
                   THEN Return([@ EXCEPT !.tracked = EmptyDict])
                   ELSE [@ EXCEPT !.pc = "load_lock"]]
    /\ UNCHANGED <<storeVars, webVars, now, file, sh, ex, nops, created, completed, expired>>

\* line 41: LOCK_SH waits while another caller holds LOCK_EX.
ShAvailable(p) == ex \ {p} = {}

LoadLock(p) ==
    /\ proc[p].pc = "load_lock"
    /\ ShAvailable(p)
    /\ sh' = sh \cup {p}
    /\ proc' = [proc EXCEPT ![p].pc = "load_read"]
    /\ UNCHANGED <<storeVars, webVars, now, file, ex, nops, created, completed, expired>>

\* line 47: the exceptions the handler of _load_match_data catches.
CaughtOnLoadIOOnly == {"IOError"}

CaughtOnLoad == {"JSONDecodeError", "IOError"}

\* lines 43-50: json.load under the shared lock; the finally releases it.
LoadRead(p) ==
    /\ proc[p].pc = "load_read"
    /\ sh' = sh \ {p}
    /\ proc' = [proc EXCEPT ![p] =
                   IF file.state = "valid"
                   THEN Return([@ EXCEPT !.tracked = file.data])
                   ELSE IF "JSONDecodeError" \in CaughtOnLoad
                        THEN Return([@ EXCEPT !.tracked = EmptyDict, !.saw_bad = TRUE])
                        ELSE Raise([@ EXCEPT !.saw_bad = TRUE])]
    /\ UNCHANGED <<storeVars, webVars, now, file, ex, nops, created, completed, expired>>

\* -------------------------------------------------------- _save_match_data
\* line 66: 'r+' when the file exists, else 'w'.
SaveExists(p) ==
    /\ proc[p].pc = "save"
    /\ proc' = [proc EXCEPT ![p].pc = "save_open", ![p].save_failed = FALSE,
                             ![p].mode = IF file.state = "absent" THEN "w" ELSE "r+"]
    /\ UNCHANGED <<storeVars, webVars, now, file, sh, ex, nops, created, completed, expired>>

\* line 67: open(file, 'w') creates or truncates the file; 'r+' leaves it.
Opened(f, mode) == IF mode = "w" THEN FileEmpty ELSE f

SaveOpen(p) ==
    /\ proc[p].pc = "save_open"
    /\ file' = Opened(file, proc[p].mode)
    /\ proc' = [proc EXCEPT ![p].pc = "save_lock"]
    /\ UNCHANGED <<storeVars, webVars, now, sh, ex, nops, created, completed, expired>>

\* line 69: LOCK_EX waits while another caller holds LOCK_SH or LOCK_EX.
ExAvailable(p) == sh \ {p} = {} /\ ex \ {p} = {}

SaveLock(p) ==
    /\ proc[p].pc = "save_lock"
    /\ ExAvailable(p)
    /\ ex' = {p}
    /\ proc' = [proc EXCEPT ![p].pc = "save_write"]
    /\ UNCHANGED <<storeVars, webVars, now, file, sh, nops, created, completed, expired>>

\* lines 71-77: seek, truncate, json.dump, flush, fsync, unlock.
Written(f, data) == FileValid(data)

SaveWrite(p) ==
    /\ proc[p].pc = "save_write"
    /\ file' = Written(file, proc[p].tracked)
    /\ ex' = {}
    /\ proc' = [proc EXCEPT ![p] = Return(@)]
    /\ UNCHANGED <<storeVars, webVars, now, sh, nops, created, completed, expired>>

\* lines 71-79 when the disk fails after f.truncate(): the file is left empty
\* or with a prefix of the document, the lock is released, and the handler of
\* line 78 prints the IOError and returns.
SwallowedOnSave(pr) == Return([pr EXCEPT !.save_failed = TRUE])

SaveWriteFails(p) ==
    /\ proc[p].pc = "save_write"
    /\ \E f \in {FileEmpty, FilePartial} : file' = f
    /\ ex' = {}
    /\ proc' = [proc EXCEPT ![p] = SwallowedOnSave(@)]
    /\ UNCHANGED <<storeVars, webVars, now, sh, nops, created, completed, expired>>

\* line 39 when open() raises IOError: the handler of line 47 returns {}.
LoadIOError(p) ==
    /\ proc[p].pc = "load_lock"
    /\ proc' = [proc EXCEPT ![p] = Return([@ EXCEPT !.tracked = EmptyDict,
                                                      !.load_failed = TRUE])]
    /\ UNCHANGED <<storeVars, webVars, now, file, sh, ex, nops, created, completed, expired>>

\* ------------------------------------------------------------ update_match
\* lines 97-98: more than 2 tracked matches: cleanup_old_matches(days=7).
NeedsCleanup(tracked) == Cardinality(DOMAIN tracked) > MaxTrackedBeforeCleanup

UmLoaded(p) ==
    /\ proc[p].pc = "um_loaded"
    /\ proc' = [proc EXCEPT ![p] =
                   IF NeedsCleanup(@.tracked)
                   THEN [@ EXCEPT !.pc = "load", !.days = DefaultDays,
                                  !.stack = << "cl_loaded", "um_cleaned" >>]
                   ELSE [@ EXCEPT !.pc = "um_merge"]]
    /\ UNCHANGED <<storeVars, webVars, now, file, sh, ex, nops, created, completed, expired>>

\* line 99: reload after cleanup.
UmCleaned(p) ==
    /\ proc[p].pc = "um_cleaned"
    /\ proc' = [proc EXCEPT ![p].pc = "load", ![p].stack = << "um_merge" >>]
    /\ UNCHANGED <<storeVars, webVars, now, file, sh, ex, nops, created, completed, expired>>

\* lines 101-169: merge in memory, then _save_match_data(tracked).
UmMerge(p) ==
    LET pr == proc[p]
        md == pr.call.match_data
        merged == MergeMatch(pr.tracked, md, pr.call.world_id, pr.current_time)
    IN /\ pr.pc = "um_merge"
       /\ proc' = [proc EXCEPT ![p] = [@ EXCEPT !.base = pr.tracked,
                                                 !.tracked = merged,
                                                 !.match_track = merged[md.id],
                                                 !.pc = "save",
                                                 !.stack = << "um_saved" >>]]
       /\ created' = IF md.id \notin DOMAIN pr.tracked
                      THEN [created EXCEPT ![md.id] = @ + 1]
                      ELSE created
       /\ UNCHANGED <<storeVars, webVars, now, file, sh, ex, nops, completed, expired>>

\* line 171: return match_track.
UmSaved(p) ==
    /\ proc[p].pc = "um_saved"
    /\ proc' = [proc EXCEPT ![p] = Return(@)]
    /\ UNCHANGED <<storeVars, webVars, now, file, sh, ex, nops, created, completed, expired>>

\* ------------------------------------------------------ cleanup_old_matches
\* lines 206-224: cutoff, to_remove, del, then _save_match_data(tracked).
ClLoaded(p) ==
    LET pr == proc[p]
        cutoff == Cutoff(now, pr.days)
        to_remove == ToRemove(pr.tracked, cutoff)
    IN /\ pr.pc = "cl_loaded"
       /\ proc' = [proc EXCEPT ![p] = [@ EXCEPT !.cutoff = cutoff,
                                                 !.removed = Cardinality(to_remove),
                                                 !.tracked = Without(pr.tracked, to_remove),
                                                 !.pc = "save",
                                                 !.stack = << "cl_saved" >> \o pr.stack]]
       /\ expired' = expired \cup to_remove
       /\ UNCHANGED <<storeVars, webVars, now, file, sh, ex, nops, created, completed>>

\* line 225: return len(to_remove).
ClSaved(p) ==
    /\ proc[p].pc = "cl_saved"
    /\ proc' = [proc EXCEPT ![p] = Return(@)]
    /\ UNCHANGED <<storeVars, webVars, now, file, sh, ex, nops, created, completed, expired>>

\* ------------------------------------------------------------- the readers
\* get_current_match_id, lines 249-259: a tracked match whose end_time parses
\* and lies in the future (the first in dict order; the order is not modelled).
CurrentCandidates(tracked, t) ==
    {m \in DOMAIN tracked : tracked[m].end_time.kind = "time" /\ t < tracked[m].end_time.t}

RdLoaded(p) ==
    LET pr == proc[p] IN
    /\ pr.pc = "rd_loaded"
    /\ \/ /\ pr.op = "get_match_summary"
          /\ proc' = [proc EXCEPT ![p] =
                         Return([@ EXCEPT !.match_track =
                                   IF pr.arg \in DOMAIN pr.tracked
                                   THEN pr.tracked[pr.arg] ELSE EmptyDict])]
       \/ /\ pr.op = "get_active_matches"
          /\ proc' = [proc EXCEPT ![p] = Return([@ EXCEPT !.res_ids = DOMAIN pr.tracked])]
       \/ /\ pr.op = "get_current_match_id"
          /\ \E m \in CurrentCandidates(pr.tracked, now) \cup {Missing} :
                /\ (m = Missing) = (CurrentCandidates(pr.tracked, now) = {})
                /\ proc' = [proc EXCEPT ![p] = Return([@ EXCEPT !.res_id = m])]
    /\ UNCHANGED <<storeVars, webVars, now, file, sh, ex, nops, created, completed, expired>>

\* The caller takes the result (or the exception) and is free again.
Finish(p) ==
    /\ proc[p].pc \in {"done", "raised"}
    /\ completed' = IF proc[p].pc = "done" /\ proc[p].op = "update_match"
                     THEN completed \cup {proc[p].call.match_data}
                     ELSE completed
    /\ proc' = [proc EXCEPT ![p] = IdleProc]
    /\ UNCHANGED <<storeVars, webVars, now, file, sh, ex, nops, created, expired>>

\* ------------------------------------------------ snapshot stores (app.py)
Kinds == {"kdr", "activity"}
Threads == {"t1", "t2"}
StoreMatchIds == {"1-1", "1-2"}
ObjectiveTypes == {"Keep", "Tower", "Camp", "Castle"}

\* What get_wvw_match_by_world returned to a record call (kills and deaths with
\* the API's mixed key casing), or None, or an exception.
LiveMatch ==
    [kills |-> [k \in {"Red", "green", "blue"} |->
                  IF k = "Red" THEN 10 ELSE IF k = "green" THEN 5 ELSE 0],
     deaths |-> [k \in {"red", "Green"} |-> IF k = "red" THEN 2 ELSE 0],
     maps |-> MatchA2.maps]

\* match['id'] of the answer: the match of the tracked world.
LiveMatchId == "1-1"

\* Answers of the remote source with other counts: all keys lowercase (the
\* kills and deaths of red vary), or mixed casing with blue missing.
LiveOf(k, d) ==
    [kills |-> [c \in Colors |-> IF c = "red" THEN k ELSE IF c = "green" THEN 5 ELSE 0],
     deaths |-> [c \in Colors |-> IF c = "red" THEN d ELSE IF c = "green" THEN 0 ELSE 3],
     maps |-> MatchA2.maps]

LiveOfMixed(k, d) ==
    [kills |-> [c \in {"Red", "green"} |-> IF c = "Red" THEN k ELSE 5],
     deaths |-> [c \in {"red", "Green"} |-> IF c = "red" THEN d ELSE 0],
     maps |-> MatchA2.maps]

LiveMatches ==
    {LiveOf(k, d) : k \in 0..MaxKills, d \in 0..MaxDeaths}
      \cup {LiveOfMixed(k, d) : k \in 0..MaxKills, d \in 0..MaxDeaths}

\* dict.get(k1, dict.get(k2, 0)), line 325.
Get2(d, k1, k2) == IF k1 \in DOMAIN d THEN d[k1] ELSE IF k2 \in DOMAIN d THEN d[k2] ELSE 0

\* lines 313-327.
normalize_team_data(d) ==
    [c \in Colors |-> CASE c = "red" -> Get2(d, "red", "Red")
                        [] c = "green" -> Get2(d, "green", "Green")
                        [] c = "blue" -> Get2(d, "blue", "Blue")]

Max(a, b) == IF a >= b THEN a ELSE b

\* kills / deaths is the double nearest to the quotient, and round(x, 2) rounds
\* the exact value of that double to the nearest hundredth, a tie to the even
\* one.  In hundredths: the nearest hundredth of the quotient; when the
\* quotient lies exactly between two hundredths, the even one if the double is
\* exact (the quotient is a dyadic fraction), else the one on the side to which
\* the division rounded the 53-bit double.
RECURSIVE Gcd(_, _)
Gcd(a, b) == IF b = 0 THEN a ELSE Gcd(b, a % b)

\* The greatest e with D * 2^e <= a (a >= D), the least j with a * 2^j >= D (a < D).
RECURSIVE ShiftDown(_, _)
ShiftDown(a, D) == IF 2 * D <= a THEN 1 + ShiftDown(a, 2 * D) ELSE 0

RECURSIVE ShiftUp(_, _)
ShiftUp(a, D) == IF a >= D THEN 0 ELSE 1 + ShiftUp(2 * a, D)

\* floor(log2(a / D)) for a, D > 0.
Exponent(a, D) == IF a >= D THEN ShiftDown(a, D) ELSE 0 - ShiftUp(a, D)

RECURSIVE PowMod(_, _)
PowMod(s, D) == IF s = 0 THEN 1 % D ELSE (2 * PowMod(s - 1, D)) % D

MantissaBits == 52

\* The remainder of a * 2^s by D, where a * 2^s / D has 53 bits: what the
\* division cuts off (0: the double is exact).
CutOff(a, D) == ((a % D) * PowMod(MantissaBits - Exponent(a, D), D)) % D

\* The quotient cut to hundredths.
RoundDown(kills, deaths) == (100 * kills) \div deaths

Round2(kills, deaths) ==
    LET q == (100 * kills) \div deaths
        r == (100 * kills) % deaths
        g == Gcd(kills, deaths)
        cut == CutOff(kills \div g, deaths \div g)
    IN IF 2 * r < deaths THEN q
       ELSE IF 2 * r > deaths THEN q + 1
       ELSE IF cut = 0 THEN (IF q % 2 = 0 THEN q ELSE q + 1)
       ELSE IF 2 * cut > deaths \div g THEN q + 1 ELSE q

\* lines 354-378: the K/D snapshot of a fetched match, stamped `t`.
KdrSnapshot(match, t) ==
    LET team_kills == normalize_team_data(match.kills)
        team_deaths == [c \in Colors |-> Max(normalize_team_data(match.deaths)[c], 1)]
    IN [timestamp |-> t,
        kdr |-> [c \in Colors |-> Round2(team_kills[c], team_deaths[c])],
        kills |-> team_kills,
        deaths |-> team_deaths]

\* lines 274-282: every objective of every map, in one sequence.
RECURSIVE AllObjectives(_)
AllObjectives(maps) ==
    IF maps = << >> THEN << >> ELSE Head(maps).objectives \o AllObjectives(Tail(maps))

\* lines 266-292: the activity snapshot of a fetched match, stamped `t`.
ActivitySnapshot(match, t) ==
    LET objs == AllObjectives(match.maps)
        owned(c) == {i \in 1..Len(objs) : Lower(objs[i].owner) = c}
    IN [timestamp |-> t,
        objectives |-> [c \in Colors |-> Cardinality(owned(c))],
        types |-> [c \in Colors |-> [ty \in ObjectiveTypes |->
                      Cardinality({i \in owned(c) : objs[i].type = ty})]]]

Snapshot(k, match, t) ==
    IF k = "kdr" THEN KdrSnapshot(match, t) ELSE ActivitySnapshot(match, t)

\* datetime.isoformat() + 'Z' strings are compared as strings (lines 305, 391).
\* The whole part of an instant is fixed-width; the fraction is printed only
\* when it is not zero, and 'Z' sorts after '.': within one whole unit the
\* string without fraction is the greatest.
Whole(t) == t \div TicksPerMinute
Frac(t) == t % TicksPerMinute

IsoGreater(a, b) ==
    IF Whole(a) # Whole(b) THEN Whole(a) > Whole(b)
    ELSE IF Frac(a) = 0 THEN Frac(b) # 0
    ELSE Frac(b) # 0 /\ Frac(a) > Frac(b)

\* lines 304-305 and 390-391: keep the snapshots newer than now - 7 days.
RetentionDays == 7

Retained(series, t) ==
    SelectSeq(series, LAMBDA sn : IsoGreater(sn.timestamp, t - RetentionDays * TicksPerDay))

IdleThread ==
    [pc |-> "idle", kind |-> "", match_id |-> "", fetched |-> "",
     snapshot |-> EmptyDict, history |-> EmptyDict]

StoreInit ==
    /\ store = [k \in Kinds |-> FileAbsent]
    /\ lock = [k \in Kinds |-> {}]
    /\ thr = [t \in Threads |-> IdleThread]
    /\ nrecs = 0
    /\ appended = [k \in Kinds |-> [m \in StoreMatchIds |-> 0]]
    /\ pruned = [k \in Kinds |-> [m \in StoreMatchIds |-> 0]]

\* No chart has been requested; the polling loop is about to start.
NoChart ==
    [status |-> "", kind |-> "", window |-> "", now |-> 0, series |-> << >>,
     fallback |-> EmptyDict, timeline |-> << >>]

\* tried and failed: the stages this iteration has attempted and those that
\* failed in it; before: the stages that failed in the iteration before.
LoopStart == [pc |-> "top", tried |-> {}, failed |-> {}, before |-> {}]

\* No request is under way (gw2api.py).
NoRequest ==
    [pc |-> "idle", retries |-> 0, attempt |-> 0, wait_time |-> 0, slept |-> 0,
     answer |-> "", answers |-> << >>]

WebInit ==
    /\ live = LiveMatch
    /\ chart = NoChart
    /\ chart0 = NoChart
    /\ loop = LoopStart
    /\ req = NoRequest

\* load_kdr_history / load_activity_history, lines 207-233.
LoadHistory(f) == IF f.state = "valid" THEN f.data ELSE EmptyDict

\* The series of a match in a store, as a chart request would load it.
Series(k, m) ==
    IF m \in DOMAIN LoadHistory(store[k]) THEN LoadHistory(store[k])[m] ELSE << >>

\* The clock of the stores: a tick at any moment, or a week at once between
\* record calls (a call lasts less than the retention window; the polling loop
\* sleeps five minutes between its rounds, line 645).
StoreTick ==
    /\ \/ /\ now % (RetentionDays * TicksPerDay) < MaxTime
          /\ now' = now + 1
       \/ /\ now < MaxWeeks * RetentionDays * TicksPerDay
          /\ \A t \in Threads : thr[t].pc \in {"idle", "returned"}
          /\ now' = now + RetentionDays * TicksPerDay
    /\ UNCHANGED <<trackerVars, storeVars, webVars>>

\* lines 257-292 and 345-378: fetch; no match: return; else build the snapshot,
\* stamped with utcnow().
RecordFetch(t, k, m) ==
    /\ thr[t].pc = "idle"
    /\ nrecs < MaxRecords
    /\ nrecs' = nrecs + 1
    /\ thr' = [thr EXCEPT ![t] = [IdleThread EXCEPT !.pc = "built", !.kind = k,
                                     !.match_id = m, !.fetched = "match",
                                     !.snapshot = Snapshot(k, live, now)]]
    /\ UNCHANGED <<now, trackerVars, webVars, store, lock, appended, pruned>>

\* What a fetch that gives no match gives instead: None, or an exception of
\* GW2API._request (a timeout after the retries, an HTTP error status).
FetchErrors == {"Timeout", "HTTPError"}
NoMatchOutcomes == {"None"} \cup FetchErrors

\* lines 310 and 396, `except Exception`: the exceptions a record call catches.
CaughtOnRecordTimeoutOnly == {"Timeout"}

CaughtOnRecord == FetchErrors

\* lines 259-264, 347-352 and 310-311, 396-397: the fetch returned None (the
\* call returns) or raised (the handler logs it and the call returns).
RecordNoMatch(t, k, m) ==
    /\ thr[t].pc = "idle"
    /\ nrecs < MaxRecords
    /\ nrecs' = nrecs + 1
    /\ \E f \in NoMatchOutcomes :
          thr' = [thr EXCEPT ![t] =
                     [IdleThread EXCEPT
                        !.pc = IF f = "None" \/ f \in CaughtOnRecord
                               THEN "returned" ELSE "raised",
                        !.kind = k, !.match_id = m, !.fetched = f]]
    /\ UNCHANGED <<now, trackerVars, webVars, store, lock, appended, pruned>>

\* `with kdr_history_lock:` / `with activity_history_lock:` waits for the lock.
LockFreeAlways(k) == TRUE

LockFree(k) == lock[k] = {}

\* lines 294-295 and 380-381: take the store's lock, then load the history.
RecordLock(t) ==
    LET k == thr[t].kind IN
    /\ thr[t].pc = "built"
    /\ LockFree(k)
    /\ lock' = [lock EXCEPT ![k] = @ \cup {t}]
    /\ thr' = [thr EXCEPT ![t].pc = "locked", ![t].history = LoadHistory(store[k])]
    /\ UNCHANGED <<now, trackerVars, webVars, store, nrecs, appended, pruned>>

\* A record call that returned inside its `with` block without leaving it.
RecordSaveKeepsLock(t) ==
    LET k == thr[t].kind
        m == thr[t].match_id
        old == IF m \in DOMAIN thr[t].history THEN thr[t].history[m] ELSE << >>
        grown == Append(old, thr[t].snapshot)
        kept == Retained(grown, now)
    IN /\ thr[t].pc = "locked"
       /\ store' = [store EXCEPT ![k] = FileValid(Put(thr[t].history, m, kept))]
       /\ thr' = [thr EXCEPT ![t].pc = "returned", ![t].history = EmptyDict]
       /\ appended' = [appended EXCEPT ![k][m] = @ + 1]
       /\ pruned' = [pruned EXCEPT ![k][m] = @ + Len(grown) - Len(kept)]
       /\ UNCHANGED <<now, trackerVars, webVars, nrecs, lock>>

\* A record call that applied the retention filter to every series it loaded.
RecordSavePrunesAll(t) ==
    LET k == thr[t].kind
        m == thr[t].match_id
        old == IF m \in DOMAIN thr[t].history THEN thr[t].history[m] ELSE << >>
        grown == Append(old, thr[t].snapshot)
        kept == Retained(grown, now)
        all == Put(thr[t].history, m, grown)
    IN /\ thr[t].pc = "locked"
       /\ store' = [store EXCEPT ![k] =
                       FileValid([x \in DOMAIN all |-> Retained(all[x], now)])]
       /\ lock' = [lock EXCEPT ![k] = @ \ {t}]
       /\ thr' = [thr EXCEPT ![t].pc = "returned", ![t].history = EmptyDict]
       /\ appended' = [appended EXCEPT ![k][m] = @ + 1]
       /\ pruned' = [pruned EXCEPT ![k][m] = @ + Len(grown) - Len(kept)]
       /\ UNCHANGED <<now, trackerVars, webVars, nrecs>>

\* lines 297-307 and 383-393: append, prune, save; the lock is released.
RecordSave(t) ==
    LET k == thr[t].kind
        m == thr[t].match_id
        old == IF m \in DOMAIN thr[t].history THEN thr[t].history[m] ELSE << >>
        grown == Append(old, thr[t].snapshot)
        kept == Retained(grown, now)
    IN /\ thr[t].pc = "locked"
       /\ store' = [store EXCEPT ![k] = FileValid(Put(thr[t].history, m, kept))]
       /\ lock' = [lock EXCEPT ![k] = @ \ {t}]
       /\ thr' = [thr EXCEPT ![t].pc = "returned", ![t].history = EmptyDict]
       /\ appended' = [appended EXCEPT ![k][m] = @ + 1]
       /\ pruned' = [pruned EXCEPT ![k][m] = @ + Len(grown) - Len(kept)]
       /\ UNCHANGED <<now, trackerVars, webVars, nrecs>>

\* The call has returned; the thread is free again.
RecordReturn(t) ==
    /\ thr[t].pc = "returned"
    /\ thr' = [thr EXCEPT ![t] = IdleThread]
    /\ UNCHANGED <<now, trackerVars, webVars, store, lock, nrecs, appended, pruned>>

\* ------------------------------------------------------------------ charts
\* request.args.get('window', '6h'): the windows a request may name.
Windows == {"6h", "24h", "7d", "30d"}

\* lines 2870-2882 and 2438-2450: bucket width in minutes, number of buckets.
BucketSize(w) ==
    CASE w = "6h" -> 15
      [] w = "24h" -> 60
      [] w = "7d" -> 6 * 60
      [] OTHER -> 15

\* A configuration whose default is the longest window.
NumBucketsDefault7d(w) ==
    CASE w = "6h" -> 24
      [] w = "24h" -> 24
      [] OTHER -> 28

NumBuckets(w) ==
    CASE w = "6h" -> 24
      [] w = "24h" -> 24
      [] w = "7d" -> 28
      [] OTHER -> 24

\* timedelta(minutes=n).
Minutes(n) == n * TicksPerMinute

\* lines 2947-2949 and 2562-2564, for i in range(num_buckets).
BucketIndex(w, i) == NumBuckets(w) - i - 1

BucketStart(t, w, i) == t - Minutes(BucketIndex(w, i) * BucketSize(w))

BucketEnd(t, w, i) ==
    t - Minutes(IF BucketIndex(w, i) > 0 THEN (BucketIndex(w, i) - 1) * BucketSize(w) ELSE 0)

\* lines 2952-2956: the snapshots whose parsed timestamp lies in the bucket.
InBucket(series, start, end) ==
    SelectSeq(series, LAMBDA sn : start <= sn.timestamp /\ sn.timestamp < end)

\* max(bucket_snapshots, key=lambda s: s['timestamp']): the first snapshot
\* whose timestamp string no other exceeds.
RECURSIVE MaxByStamp(_, _)
MaxByStamp(best, rest) ==
    IF rest = << >> THEN best
    ELSE MaxByStamp(IF IsoGreater(Head(rest).timestamp, best.timestamp)
                    THEN Head(rest) ELSE best,
                    Tail(rest))

\* The metric values of a snapshot: all of it but the timestamp.
Values(sn) == [f \in DOMAIN sn \ {"timestamp"} |-> sn[f]]

\* lines 2946-2991 and 2561-2604: one bucket.  The K/D chart stamps a bucket
\* with its snapshot's timestamp, the activity chart with the bucket's end.
Bucket(k, t, series, fallback, w, i) ==
    LET start == BucketStart(t, w, i)
        end == BucketEnd(t, w, i)
        found == InBucket(series, start, end)
        latest == MaxByStamp(Head(found), Tail(found))
    IN [bucket_start |-> start,
        bucket_end |-> end,
        timestamp |-> IF found # << >> /\ k = "kdr" THEN latest.timestamp ELSE end,
        minutes_ago |-> (t - end) \div TicksPerMinute,
        values |-> IF found # << >> THEN Values(latest) ELSE fallback]

\* A reconstructor that leaves out the buckets that hold no snapshot.
TimelineFoundOnly(k, t, series, fallback, w) ==
    SelectSeq([i \in 1..NumBuckets(w) |-> Bucket(k, t, series, fallback, w, i - 1)],
              LAMBDA b : InBucket(series, b.bucket_start, b.bucket_end) # << >>)

Timeline(k, t, series, fallback, w) ==
    [i \in 1..NumBuckets(w) |-> Bucket(k, t, series, fallback, w, i - 1)]

\* The response c answered the request for chart k over window w at instant t.
SameRequest(c, k, w, t) ==
    c.status = "success" /\ c.kind = k /\ c.window = w /\ c.now = t

\* chart is the last response; chart0 is the response before it when that one
\* answered the same request at the same instant, NoChart otherwise.
\* get_wvw_kdr / get_wvw_activity with a live match: the current values, the
\* series loaded under the store's lock, the buckets from utcnow().
Respond(k, w, m) ==
    \E fallback \in {Values(Snapshot(k, live, now))} :
        /\ chart0' = IF SameRequest(chart, k, w, now) THEN chart ELSE NoChart
        /\ chart' = [status |-> "success", kind |-> k, window |-> w, now |-> now,
                     series |-> Series(k, m),
                     fallback |-> fallback,
                     timeline |-> Timeline(k, now, Series(k, m), fallback, w)]

\* A handler that saved the history it loaded after pruning the match's series.
ChartRequestPruning(k, w, m) ==
    /\ LockFree(k)
    /\ Respond(k, w, m)
    /\ store' = [store EXCEPT ![k] = FileAbsent]
    /\ UNCHANGED <<now, trackerVars, lock, thr, nrecs, appended, pruned, live, loop, req>>

ChartRequest(k, w, m) ==
    /\ LockFree(k)
    /\ Respond(k, w, m)
    /\ UNCHANGED <<now, trackerVars, storeVars, live, loop, req>>

\* lines 2889-2893 and 3017-3023: no match (404) or an exception (400).
ChartNoMatch ==
    /\ chart0' = NoChart
    /\ chart' = [NoChart EXCEPT !.status = "error"]
    /\ UNCHANGED <<now, trackerVars, storeVars, live, loop, req>>

\* The clock of the chart requests.
ChartTick ==
    /\ now < MaxTime
    /\ now' = now + 1
    /\ UNCHANGED <<trackerVars, storeVars, webVars>>

\* Series a store may hold when a chart is requested: up to MaxSnapshots
\* snapshots in any order, stamped around the bucket boundaries of the 6h chart
\* of instant 0, each with values of its own.
Stamps ==
    LET w == Minutes(BucketSize("6h"))
        n == NumBuckets("6h")
    IN {0, -1, -2, -w, -(n - 1) * w, -(n - 1) * w - 1}

StampSeqs == UNION {[1..n -> Stamps] : n \in 0..MaxSnapshots}

HistoricLive(i) == [LiveOf(i, 1) EXCEPT !.maps = SubSeq(MatchA2.maps, 1, i - 1)]

SeriesOf(k, stamps) == [i \in 1..Len(stamps) |-> Snapshot(k, HistoricLive(i), stamps[i])]

ChartStores ==
    {[k \in Kinds |-> IF stamps = << >> THEN FileAbsent
                      ELSE FileValid(Put(EmptyDict, "1-1", SeriesOf(k, stamps)))] :
       stamps \in StampSeqs}

\* The steps of the ledger's operations.
LoadStep(p) == LoadExists(p) \/ LoadLock(p) \/ LoadRead(p)
SaveStep(p) == SaveExists(p) \/ SaveOpen(p) \/ SaveLock(p) \/ SaveWrite(p)
UpdateStep(p) == UmLoaded(p) \/ UmCleaned(p) \/ UmMerge(p) \/ UmSaved(p)
CleanupStep(p) == ClLoaded(p) \/ ClSaved(p)

\* ------------------------------------------- kdr_tracking_loop (app.py 574)
\* The loop's thread: "t1" towards the snapshot stores, "p1" towards the ledger.
Stages == {"fetch", "kdr", "activity", "enrich", "ledger"}

\* update_guild_tracking(enriched, tracked_world), line 636.
LoopCalls == {c \in Calls : c.world_id = World(TrackedWorld)}

\* line 641, `except Exception`: the exceptions the loop's outer handler catches.
CaughtByLoopTimeoutOnly == {"Timeout"}

CaughtByLoop == FetchErrors

\* An exception that reaches the loop's outer handler: logged, then the
\* sleep; one that no handler catches ends the thread.
Thrown(f) == IF f \in CaughtByLoop THEN "sleep" ELSE "dead"

\* lines 592-599: a new iteration fetches the match.
LoopFetch ==
    /\ loop.pc = "top"
    /\ \E f \in {"match"} \cup NoMatchOutcomes :
          loop' = [loop EXCEPT
                     !.tried = {"fetch"},
                     !.failed = IF f = "match" THEN {} ELSE {"fetch"},
                     !.pc = IF f = "match" THEN "kdr"
                            ELSE IF f = "None" THEN "sleep" ELSE Thrown(f)]
    /\ UNCHANGED <<now, trackerVars, storeVars, live, chart, chart0, req>>

\* lines 603-604: the record call of the stage, step by step.
LoopRecord(k) ==
    /\ loop.pc = k
    /\ \/ RecordFetch("t1", k, LiveMatchId)
       \/ RecordLock("t1")
       \/ RecordSave("t1")

\* The record call's own fetch gives no match or raises: the call returns
\* (lines 260-261, 310 and 351-352, 396).
LoopRecordFails(k) ==
    /\ loop.pc = k
    /\ thr["t1"].pc = "idle"
    /\ \E f \in NoMatchOutcomes :
          thr' = [thr EXCEPT !["t1"] =
                     [IdleThread EXCEPT
                        !.pc = IF f = "None" \/ f \in CaughtOnRecord
                               THEN "returned" ELSE "raised",
                        !.kind = k, !.fetched = f]]
    /\ UNCHANGED <<now, trackerVars, webVars, store, lock, nrecs, appended, pruned>>

\* A loop that gave up its iteration when a record call recorded nothing.
LoopRecordedOrGivesUp(k) ==
    /\ loop.pc = k
    /\ thr["t1"].pc \in {"returned", "raised"}
    /\ thr' = [thr EXCEPT !["t1"] = IdleThread]
    /\ loop' = [loop EXCEPT
                  !.tried = @ \cup {k},
                  !.failed = IF thr["t1"].fetched = "match" THEN @ ELSE @ \cup {k},
                  !.pc = IF thr["t1"].pc = "raised" THEN Thrown(thr["t1"].fetched)
                         ELSE IF thr["t1"].fetched # "match" THEN "sleep"
                         ELSE IF k = "kdr" THEN "activity" ELSE "enrich"]
    /\ UNCHANGED <<now, trackerVars, live, chart, chart0, req, store, lock, nrecs,
                   appended, pruned>>

\* The record call is over: the next statement of the loop, or the outer
\* handler when the call raised.
LoopRecorded(k) ==
    /\ loop.pc = k
    /\ thr["t1"].pc \in {"returned", "raised"}
    /\ thr' = [thr EXCEPT !["t1"] = IdleThread]
    /\ loop' = [loop EXCEPT
                  !.tried = @ \cup {k},
                  !.failed = IF thr["t1"].fetched = "match" THEN @ ELSE @ \cup {k},
                  !.pc = IF thr["t1"].pc = "raised" THEN Thrown(thr["t1"].fetched)
                         ELSE IF k = "kdr" THEN "activity" ELSE "enrich"]
    /\ UNCHANGED <<now, trackerVars, live, chart, chart0, req, store, lock, nrecs,
                   appended, pruned>>

\* lines 607-633: worlds, guilds, team info, build_enriched_match; an exception
\* goes to the handler of line 638.
LoopEnrich ==
    /\ loop.pc = "enrich"
    /\ \E ok \in BOOLEAN :
          loop' = [loop EXCEPT
                     !.tried = @ \cup {"enrich"},
                     !.failed = IF ok THEN @ ELSE @ \cup {"enrich"},
                     !.pc = IF ok THEN "ledger" ELSE "sleep"]
    /\ UNCHANGED <<now, trackerVars, storeVars, live, chart, chart0, req>>

\* line 636 and lines 567-569: update_match, step by step, on a disk that works.
LoopLedger ==
    /\ loop.pc = "ledger"
    /\ \/ \E c \in LoopCalls : StartUpdate("p1", c)
       \/ LoadStep("p1") \/ SaveStep("p1") \/ UpdateStep("p1") \/ CleanupStep("p1")

\* update_match is over, or raised and update_guild_tracking logged the
\* exception (lines 570-571): the iteration goes to its sleep.
LoopLedgerDone ==
    /\ loop.pc = "ledger"
    /\ proc["p1"].pc \in {"done", "raised"}
    /\ completed' = IF proc["p1"].pc = "done"
                     THEN completed \cup {proc["p1"].call.match_data}
                     ELSE completed
    /\ proc' = [proc EXCEPT !["p1"] = IdleProc]
    /\ loop' = [loop EXCEPT
                  !.tried = @ \cup {"ledger"},
                  !.failed = IF proc["p1"].pc = "done" THEN @ ELSE @ \cup {"ledger"},
                  !.pc = "sleep"]
    /\ UNCHANGED <<now, storeVars, live, chart, chart0, req, file, sh, ex, nops, created,
                   expired>>

\* update_match raises before it touches the ledger; lines 570-571 log it.
LoopLedgerRaises ==
    /\ loop.pc = "ledger"
    /\ proc["p1"].pc = "idle"
    /\ loop' = [loop EXCEPT !.tried = @ \cup {"ledger"},
                            !.failed = @ \cup {"ledger"},
                            !.pc = "sleep"]
    /\ UNCHANGED <<now, trackerVars, storeVars, live, chart, chart0, req>>

\* line 645: time.sleep(5 * 60), then `while True` again.
LoopSleep ==
    /\ loop.pc = "sleep"
    /\ loop' = [loop EXCEPT !.pc = "top", !.tried = {}, !.failed = {},
                            !.before = loop.failed]
    /\ UNCHANGED <<now, trackerVars, storeVars, live, chart, chart0, req>>

LoopThread ==
    \/ LoopFetch
    \/ \E k \in Kinds : LoopRecord(k) \/ LoopRecordFails(k) \/ LoopRecorded(k)
    \/ LoopEnrich
    \/ LoopLedger \/ LoopLedgerDone \/ LoopLedgerRaises
    \/ LoopSleep

\* ------------------------------------------------- threads of the web process
\* A thread of the process (the polling loop's or a request's) is "t" towards
\* the snapshot stores and Runs[t] towards the ledger.
Runs == [t \in Threads |-> IF t = "t1" THEN "p1" ELSE "p2"]

\* lines 2937 and 2552: a chart handler takes the store's lock ...
ChartLock(t, k) ==
    /\ thr[t].pc = "idle"
    /\ LockFree(k)
    /\ lock' = [lock EXCEPT ![k] = @ \cup {t}]
    /\ thr' = [thr EXCEPT ![t] = [IdleThread EXCEPT !.pc = "chart_locked", !.kind = k]]
    /\ UNCHANGED <<now, trackerVars, webVars, store, nrecs, appended, pruned>>

\* ... lines 2938-2939 and 2553-2554: loads the history and leaves the `with`;
\* the buckets and the response follow.
ChartLoaded(t, w) ==
    /\ thr[t].pc = "chart_locked"
    /\ Respond(thr[t].kind, w, LiveMatchId)
    /\ lock' = [lock EXCEPT ![thr[t].kind] = @ \ {t}]
    /\ thr' = [thr EXCEPT ![t] = IdleThread]
    /\ UNCHANGED <<now, trackerVars, live, loop, req, store, nrecs, appended, pruned>>

\* The polling loop's thread: the record calls and update_guild_tracking,
\* one call at a time (lines 603, 604 and 636).
PollingThread ==
    \/ /\ proc[Runs["t1"]].pc = "idle"
       /\ \E k \in Kinds : RecordFetch("t1", k, LiveMatchId)
    \/ RecordLock("t1") \/ RecordSave("t1") \/ RecordReturn("t1")
    \/ /\ thr["t1"].pc = "idle"
       /\ \E c \in LoopCalls : StartUpdate(Runs["t1"], c)
    \/ LoadStep(Runs["t1"]) \/ SaveStep(Runs["t1"]) \/ UpdateStep(Runs["t1"])
    \/ CleanupStep(Runs["t1"])
    \/ Finish(Runs["t1"])

\* A request handler's thread: the charts (lines 2552, 2937) and the ledger's
\* readers (lines 2402-2407), one at a time.
HandlerThread ==
    \/ /\ proc[Runs["t2"]].pc = "idle"
       /\ \E k \in Kinds : ChartLock("t2", k)
    \/ \E w \in {"6h"} : ChartLoaded("t2", w)
    \/ /\ thr["t2"].pc = "idle"
       /\ StartRead(Runs["t2"], "get_active_matches", "")
    \/ LoadStep(Runs["t2"]) \/ SaveStep(Runs["t2"]) \/ UpdateStep(Runs["t2"])
    \/ CleanupStep(Runs["t2"])
    \/ RdLoaded(Runs["t2"])
    \/ Finish(Runs["t2"])

\* ------------------------------------------------ GW2API._request (gw2api.py)
\* What one session.get, raise_for_status and response.json() may give: the
\* data, requests.Timeout, requests.ConnectionError, an HTTPError of a 5xx or
\* of a 4xx status.
Answers == {"ok", "Timeout", "ConnectionError", "HTTP5xx", "HTTP4xx"}

\* line 78: the `retries` the callers pass (the default, and 3 for commerce).
RetryCounts == {2, 3}

\* line 122, `except requests.Timeout`: what the retry loop retries.
Retried == {"Timeout"}

RECURSIVE Pow2(_)
Pow2(n) == IF n = 0 THEN 1 ELSE 2 * Pow2(n - 1)

\* lines 95-99: the cache holds the answer; no request is made.
RequestCached ==
    /\ req.pc = "idle"
    /\ req' = [NoRequest EXCEPT !.pc = "returned", !.answer = "cached"]
    /\ UNCHANGED <<now, trackerVars, storeVars, live, chart, chart0, loop>>

\* lines 101-105: nothing cached; the loop over range(retries + 1) starts.
RequestStart(r) ==
    /\ req.pc = "idle"
    /\ req' = [NoRequest EXCEPT !.pc = "try", !.retries = r]
    /\ UNCHANGED <<now, trackerVars, storeVars, live, chart, chart0, loop>>

\* lines 106-135: one attempt.  The data is returned; an answer the loop
\* retries is followed by the backoff while attempts are left, and raised
\* after the last; any other exception is raised at once.
RequestAttempt(a) ==
    /\ req.pc = "try"
    /\ req' = [req EXCEPT
                 !.answer = a,
                 !.answers = Append(@, a),
                 !.wait_time = IF a \in Retried /\ req.attempt < req.retries
                                THEN Pow2(req.attempt) ELSE 0,
                 !.pc = IF a = "ok" THEN "returned"
                        ELSE IF a \in Retried /\ req.attempt < req.retries
                             THEN "backoff" ELSE "raised"]
    /\ UNCHANGED <<now, trackerVars, storeVars, live, chart, chart0, loop>>

\* line 128: time.sleep(wait_time), then the next attempt.
RequestBackoff ==
    /\ req.pc = "backoff"
    /\ req' = [req EXCEPT !.pc = "try", !.attempt = @ + 1,
                          !.slept = @ + req.wait_time, !.wait_time = 0]
    /\ UNCHANGED <<now, trackerVars, storeVars, live, chart, chart0, loop>>

\* The caller has the data or the exception; the client is free again.
RequestOver ==
    /\ req.pc \in {"returned", "raised"}
    /\ req' = NoRequest
    /\ UNCHANGED <<now, trackerVars, storeVars, live, chart, chart0, loop>>

\* ---------------------------------------------------------- specifications
vars == <<now, trackerVars, storeVars, webVars>>

Days == {ImmediateDays, DefaultDays}

\* One caller at a time, a disk that works.
Init == TrackerInit({FileAbsent, FileValid(SeedOne), FileValid(SeedThree)}) /\ StoreInit /\ WebInit

Next ==
    \/ Tick
    \/ \E c \in Calls : StartUpdate("p1", c)
    \/ \E d \in Days : StartCleanup("p1", d)
    \/ LoadStep("p1") \/ SaveStep("p1") \/ UpdateStep("p1") \/ CleanupStep("p1")
    \/ Finish("p1")

Spec == Init /\ [][Next]_vars

\* One caller at a time, a disk that may fail (IOError on open or on write).
InitFault ==
    TrackerInit({FileAbsent, FileValid(SeedOne), FileValid(SeedThree)}) /\ StoreInit /\ WebInit

Reads == {<<"get_match_summary", "1-1">>, <<"get_active_matches", "">>,
          <<"get_current_match_id", "">>}

NextFault ==
    \/ Tick
    \/ \E c \in Calls : StartUpdate("p1", c)
    \/ \E d \in Days : StartCleanup("p1", d)
    \/ \E r \in Reads : StartRead("p1", r[1], r[2])
    \/ LoadStep("p1") \/ SaveStep("p1") \/ UpdateStep("p1") \/ CleanupStep("p1")
    \/ RdLoaded("p1")
    \/ SaveWriteFails("p1")
    \/ LoadIOError("p1")
    \/ Finish("p1")

SpecFault == InitFault /\ [][NextFault]_vars

\* Concurrent callers (threads or processes), a disk that works.
ConcCalls == {Call(MatchA2, NoWorld), Call(MatchB, NoWorld), Call(MatchC, NoWorld)}

InitConc == TrackerInit({FileAbsent, FileValid(SeedThree)}) /\ StoreInit /\ WebInit

NextConc ==
    \/ Tick
    \/ \E p \in Procs :
          \/ \E c \in ConcCalls : StartUpdate(p, c)
          \/ \E d \in Days : StartCleanup(p, d)
          \/ \E r \in Reads : StartRead(p, r[1], r[2])
          \/ LoadStep(p) \/ SaveStep(p) \/ UpdateStep(p) \/ CleanupStep(p)
          \/ RdLoaded(p)
          \/ Finish(p)

SpecConc == InitConc /\ [][NextConc]_vars

\* Concurrent update_match calls only.
NextUpdates ==
    \/ Tick
    \/ \E p \in Procs :
          \/ \E c \in ConcCalls : StartUpdate(p, c)
          \/ LoadStep(p) \/ SaveStep(p) \/ UpdateStep(p) \/ CleanupStep(p)
          \/ Finish(p)

SpecUpdates == InitConc /\ [][NextUpdates]_vars

\* The snapshot stores: concurrent record calls of the threads of one process.
InitStore == TrackerInit({FileAbsent}) /\ StoreInit /\ WebInit

NextStore ==
    \/ StoreTick
    \/ \E t \in Threads : \E k \in Kinds : \E m \in StoreMatchIds :
          RecordFetch(t, k, m) \/ RecordNoMatch(t, k, m)
    \/ \E t \in Threads : RecordLock(t) \/ RecordSave(t) \/ RecordReturn(t)

SpecStore == InitStore /\ [][NextStore]_vars

\* record_kdr_snapshot alone, for every answer of the remote source.
InitKdr ==
    /\ TrackerInit({FileAbsent}) /\ StoreInit
    /\ live \in LiveMatches
    /\ chart = NoChart /\ chart0 = NoChart /\ loop = LoopStart /\ req = NoRequest

NextKdr ==
    \/ \E m \in StoreMatchIds : RecordFetch("t1", "kdr", m)
    \/ RecordLock("t1")
    \/ RecordSave("t1")
    \/ RecordReturn("t1")

SpecKdr == InitKdr /\ [][NextKdr]_vars

\* Chart requests against a store that holds some series.
InitChart ==
    /\ TrackerInit({FileAbsent}) /\ WebInit
    /\ store \in ChartStores
    /\ lock = [k \in Kinds |-> {}]
    /\ thr = [t \in Threads |-> IdleThread]
    /\ nrecs = 0
    /\ appended = [k \in Kinds |-> [m \in StoreMatchIds |-> 0]]
    /\ pruned = [k \in Kinds |-> [m \in StoreMatchIds |-> 0]]

NextChart ==
    \/ ChartTick
    \/ \E k \in Kinds : \E w \in Windows : ChartRequest(k, w, LiveMatchId)
    \/ ChartNoMatch

SpecChart == InitChart /\ [][NextChart]_vars

\* The polling loop alone; its thread is scheduled again and again, every
\* fetch is bounded by its timeout and every sleep ends.
InitLoop == TrackerInit({FileAbsent, FileValid(SeedThree)}) /\ StoreInit /\ WebInit

NextLoop == LoopThread

SpecLoop == InitLoop /\ [][NextLoop]_vars /\ WF_vars(NextLoop)

\* The threads of the web process: the polling loop and the request handlers,
\* each on the stores and on the ledger.
InitThreads == TrackerInit({FileValid(SeedThree)}) /\ StoreInit /\ WebInit

NextThreads == PollingThread \/ HandlerThread

SpecThreads == InitThreads /\ [][NextThreads]_vars

\* One client making requests, one after the other, while time passes.
InitRequest == TrackerInit({FileAbsent}) /\ StoreInit /\ WebInit

NextRequest ==
    \/ Tick
    \/ RequestCached
    \/ \E r \in RetryCounts : RequestStart(r)
    \/ \E a \in Answers : RequestAttempt(a)
    \/ RequestBackoff
    \/ RequestOver

SpecRequest == InitRequest /\ [][NextRequest]_vars

\* ------------------------------------------------------------------ claims
\* What an input claims, read off the input alone: the (guild, team, objective
\* type, map type) of every objective that has a claimed_by and a resolved
\* guild_name and whose owner is one of the three colors.
Claims(md) ==
    {c \in UNION {{[guild |-> md.maps[i].objectives[j].claimed_by,
                    name |-> md.maps[i].objectives[j].guild_name,
                    team |-> Lower(md.maps[i].objectives[j].owner),
                    type |-> md.maps[i].objectives[j].type,
                    map |-> md.maps[i].type] :
                      j \in 1..Len(md.maps[i].objectives)} : i \in 1..Len(md.maps)} :
        c.guild \notin {Missing, ""} /\ c.name \notin {Missing, ""} /\ c.team \in Colors}

Range(seq) == {seq[i] : i \in 1..Len(seq)}

UpdateReturned(p) == proc[p].pc = "done" /\ proc[p].op = "update_match"
CleanupReturned(p) == proc[p].pc = "done" /\ proc[p].op = "cleanup_old_matches"

\* The record `new` is the record `old` with the claims of md merged in: each
\* team's guilds are the union, the guilds of old keep first_seen, and
\* each guild's objective types and map types are the union.
IsUnion(old, md, new) ==
    \A c \in Colors :
       LET og == old.teams[c].guilds
           ng == new.teams[c].guilds
           cl == {x \in Claims(md) : x.team = c}
       IN /\ DOMAIN ng = DOMAIN og \cup {x.guild : x \in cl}
          /\ \A g \in DOMAIN ng :
                LET mine == {x \in cl : x.guild = g} IN
                /\ g \in DOMAIN og => ng[g].first_seen = og[g].first_seen
                /\ Range(ng[g].objective_types) =
                     (IF g \in DOMAIN og THEN Range(og[g].objective_types) ELSE {})
                       \cup {x.type : x \in mine}
                /\ Range(ng[g].maps_seen) =
                     (IF g \in DOMAIN og THEN Range(og[g].maps_seen) ELSE {})
                       \cup {x.map : x \in mine}

\* C4 (as stated): update_match is an idempotent upsert of guild claims: when
\* the match was tracked before the call, the team's guilds after the call are
\* the union of the guilds before and the guilds of the input, with first_seen
\* of the earlier guilds unchanged (so an identical input adds nothing).
C4_UpsertIsUnion ==
    \A p \in Procs :
       UpdateReturned(p) /\ proc[p].call.match_data.id \in DOMAIN proc[p].pre
       => LET id == proc[p].call.match_data.id IN
          /\ id \in DOMAIN Ledger
          /\ IsUnion(proc[p].pre[id], proc[p].call.match_data, Ledger[id])

\* C4 (amended): the same, unless the cleanup that this update_match ran first
\* (more than 2 matches tracked) removed the match's record as expired; the
\* record is then initialised afresh and holds the claims of the input alone.
C4_UpsertIsUnionUnlessExpired ==
    \A p \in Procs :
       UpdateReturned(p)
       => LET id == proc[p].call.match_data.id
              md == proc[p].call.match_data
              pre == proc[p].pre
              swept == /\ Cardinality(DOMAIN pre) > 2
                       /\ id \in DOMAIN pre
                       /\ pre[id].end_time.kind = "time"
                       /\ pre[id].end_time.t < proc[p].cutoff
          IN /\ id \in DOMAIN Ledger
             /\ (id \in DOMAIN pre /\ ~swept) => IsUnion(pre[id], md, Ledger[id])
             /\ (id \notin DOMAIN pre \/ swept)
                  => /\ IsUnion([teams |-> [c \in Colors |-> [guilds |-> EmptyDict]]],
                                md, Ledger[id])
                     /\ Ledger[id].first_seen = proc[p].current_time

\* C4 witness: a second update of a tracked match has added a guild to a team
\* and kept an earlier guild with its first_seen.
C4_Witness ==
    \E p \in Procs :
       /\ UpdateReturned(p)
       /\ proc[p].call.match_data.id \in DOMAIN proc[p].pre
       /\ LET id == proc[p].call.match_data.id IN
          /\ id \in DOMAIN Ledger
          /\ \E c \in Colors :
                DOMAIN proc[p].pre[id].teams[c].guilds # DOMAIN Ledger[id].teams[c].guilds
          /\ \E c \in Colors : \E g \in DOMAIN proc[p].pre[id].teams[c].guilds :
                /\ g \in DOMAIN Ledger[id].teams[c].guilds
                /\ Ledger[id].teams[c].guilds[g].first_seen < proc[p].current_time
                /\ Ledger[id].teams[c].guilds[g].last_seen = proc[p].current_time

\* C5 (as stated): a TrackedMatch is created at most once per match ID: a
\* record is never initialised a second time for the same match ID.
C5_CreatedAtMostOnce == \A m \in MatchIds : created[m] <= 1

\* C5 (amended): a record is initialised only while its match ID is not in the
\* ledger (never seen, or removed by cleanup since); while the ID stays in the
\* ledger every update_match merges into the record (first_seen, start_time,
\* end_time and the guilds recorded so far are kept); and a record leaves the
\* ledger only by a cleanup whose cutoff its end_time lies before.
C5_CreatedOnlyWhenAbsent ==
    [][\A m \in MatchIds :
         /\ created'[m] # created[m] => m \notin DOMAIN Ledger
         /\ (m \in DOMAIN Ledger /\ m \in DOMAIN Ledger')
              => /\ Ledger'[m].first_seen = Ledger[m].first_seen
                 /\ \A c \in Colors : \A g \in DOMAIN Ledger[m].teams[c].guilds :
                       /\ g \in DOMAIN Ledger'[m].teams[c].guilds
                       /\ Ledger'[m].teams[c].guilds[g].first_seen
                            = Ledger[m].teams[c].guilds[g].first_seen
         /\ (m \in DOMAIN Ledger /\ m \notin DOMAIN Ledger')
              => /\ file'.state = "valid"
                 /\ Ledger[m].end_time.kind = "time"
                 /\ \E p \in Procs : /\ proc[p].pc = "save_write"
                                      /\ proc[p].stack[1] = "cl_saved"
                                      /\ Ledger[m].end_time.t < proc[p].cutoff
         /\ (m \notin DOMAIN Ledger /\ m \in DOMAIN Ledger')
              => \E p \in Procs : /\ proc[p].op = "update_match"
                                   /\ proc[p].call.match_data.id = m
                                   /\ Ledger'[m].first_seen = proc[p].current_time
                                   /\ Ledger'[m].end_time = proc[p].call.match_data.end_time
      ]_vars

\* C5 witness: a match ID whose record was removed by cleanup is tracked again,
\* initialised a second time by a later update_match.
C5_Witness ==
    \E m \in MatchIds : /\ created[m] = 2
                         /\ m \in expired
                         /\ m \in DOMAIN Ledger
                         /\ \E p \in Procs : UpdateReturned(p)

\* C6: cleanup_old_matches(days) removes exactly the matches whose end_time is
\* more than `days` before the instant t at which it computes its cutoff (t
\* between the call and now), keeps every other record as it was, persists the
\* pruned ledger and returns the number of records removed.
C6_CleanupRemovesExactlyExpired ==
    \A p \in Procs :
       (CleanupReturned(p) \/ proc[p].pc = "cl_saved")
       => LET pre == proc[p].pre
              days == proc[p].days
          IN \E t \in proc[p].started..now :
                LET gone == {m \in DOMAIN pre :
                               /\ pre[m].end_time.kind = "time"
                               /\ pre[m].end_time.t + days * TicksPerDay < t}
                IN /\ file.state = "valid"
                   /\ DOMAIN file.data = DOMAIN pre \ gone
                   /\ \A m \in DOMAIN file.data : file.data[m] = pre[m]
                   /\ proc[p].removed = Cardinality(gone)

\* C6 witness: cleanup_old_matches(0) on a ledger of one match whose end_time
\* is in the past has removed that match and returned 1.
C6_Witness ==
    \E p \in Procs :
       /\ CleanupReturned(p)
       /\ proc[p].days = 0
       /\ Cardinality(DOMAIN proc[p].pre) = 1
       /\ \A m \in DOMAIN proc[p].pre : /\ proc[p].pre[m].end_time.kind = "time"
                                          /\ proc[p].pre[m].end_time.t < proc[p].started
       /\ file = FileValid(EmptyDict)
       /\ proc[p].removed = 1

\* C7: a tracked match whose end_time is missing or unparsable stays in the
\* ledger, with that end_time, over every step of every cleanup_old_matches
\* and update_match.
C7_NoEndTimeNeverRemoved ==
    [][\A m \in DOMAIN Ledger :
         Ledger[m].end_time.kind # "time"
         => /\ m \in DOMAIN Ledger'
            /\ Ledger'[m].end_time = Ledger[m].end_time]_vars

\* C7 witness: a cleanup has removed an expired match from a ledger that also
\* holds a match without end_time, which is still there.
C7_Witness ==
    \E p \in Procs :
       /\ proc[p].pc = "cl_saved"
       /\ proc[p].removed > 0
       /\ \E m \in DOMAIN proc[p].pre : /\ proc[p].pre[m].end_time.kind # "time"
                                          /\ m \in DOMAIN Ledger
                                          /\ Ledger[m] = proc[p].pre[m]

\* C8: an unparsable ledger file is read as an empty ledger: no caller sees an
\* exception, _load_match_data hands {} to update_match and
\* cleanup_old_matches, the readers return their empty result, and a write
\* that succeeds leaves exactly the writer's ledger in the file, as valid JSON.
C8_UnparsableReadsAsEmpty ==
    \A p \in Procs :
       /\ proc[p].saw_bad
            => /\ proc[p].pc # "raised"
               /\ proc[p].pc \in {"um_loaded", "cl_loaded", "rd_loaded"}
                    => proc[p].tracked = EmptyDict
               /\ (proc[p].pc = "done" /\ proc[p].op = "get_match_summary")
                    => proc[p].match_track = EmptyDict
               /\ (proc[p].pc = "done" /\ proc[p].op = "get_active_matches")
                    => proc[p].res_ids = {}
               /\ (proc[p].pc = "done" /\ proc[p].op = "get_current_match_id")
                    => proc[p].res_id = Missing
       /\ (proc[p].pc \in {"um_saved", "cl_saved"} /\ ~proc[p].save_failed)
            => file = FileValid(proc[p].tracked)

\* C8 witness: update_match found the file unparsable, merged into an empty
\* ledger and its write succeeded: the file holds valid JSON again.
C8_Witness ==
    \E p \in Procs :
       /\ proc[p].saw_bad
       /\ proc[p].pc = "um_saved"
       /\ ~proc[p].save_failed
       /\ proc[p].base = EmptyDict
       /\ file.state = "valid"
       /\ DOMAIN file.data = {proc[p].call.match_data.id}

\* C9 (as stated): when update_match returns a TrackedMatch to its caller, the
\* durable ledger contains that update; a failed write is never passed off as
\* a success.
C9_ReturnMeansPersisted ==
    \A p \in Procs :
       UpdateReturned(p)
       => /\ file.state = "valid"
          /\ proc[p].call.match_data.id \in DOMAIN file.data
          /\ file.data[proc[p].call.match_data.id] = proc[p].match_track

\* Every caller is idle: all calls have returned.
Quiescent == \A p \in Procs : proc[p].pc = "idle"

\* C1 (as stated): after any interleaving of update_match calls the ledger
\* holds the effect of every call: the record of its match (unless a cleanup
\* found that match expired) with every guild claim of its input.
C1_NoLostUpdate ==
    Quiescent
    => \A md \in completed :
          \/ md.id \in expired
          \/ /\ md.id \in DOMAIN Ledger
             /\ \A c \in Claims(md) :
                   /\ c.guild \in DOMAIN Ledger[md.id].teams[c.team].guilds
                   /\ c.type \in Range(Ledger[md.id].teams[c.team].guilds[c.guild]
                                          .objective_types)
                   /\ c.map \in Range(Ledger[md.id].teams[c.team].guilds[c.guild].maps_seen)

\* C10 (as stated): a reader that holds the shared lock never finds the file
\* zero-length or partially written.
C10_ReaderSeesWholeFile == \A p \in sh : file.state = "valid"

C3_SeriesSorted ==
    \A k \in Kinds : \A m \in StoreMatchIds :
       \A i, j \in 1..Len(Series(k, m)) :
          i < j => Series(k, m)[i].timestamp <= Series(k, m)[j].timestamp

\* What the remote source reports for a team, whatever the casing of its key;
\* 0 when the team has no key.
SourceCount(d, c) ==
    IF \E k \in DOMAIN d : Lower(k) = c
    THEN d[CHOOSE k \in DOMAIN d : Lower(k) = c]
    ELSE 0

Abs(x) == IF x < 0 THEN 0 - x ELSE x

\* C16: every recorded KDR snapshot holds, for each of red, green and blue, the
\* kills of the source, deaths >= 1 (the deaths of the source, 0 or a missing
\* key floored to 1, keys read as red/Red), and as ratio a hundredth nearest to
\* kills / deaths; kills {10, 5, 0} and deaths {2, 0, 3} give deaths {2, 1, 3}
\* and ratios {5.00, 5.00, 0.00}.
C16_KdrSnapshotNumbers ==
    \A m \in StoreMatchIds : \A i \in 1..Len(Series("kdr", m)) :
       LET sn == Series("kdr", m)[i] IN
       /\ \A c \in Colors :
             /\ sn.kills[c] = SourceCount(live.kills, c)
             /\ sn.deaths[c] >= 1
             /\ sn.deaths[c] = Max(SourceCount(live.deaths, c), 1)
             /\ 2 * Abs(sn.kdr[c] * sn.deaths[c] - 100 * sn.kills[c]) <= sn.deaths[c]
       /\ live = LiveOf(10, 2)
            => /\ sn.deaths = [c \in Colors |->
                                 IF c = "red" THEN 2 ELSE IF c = "green" THEN 1 ELSE 3]
               /\ sn.kdr = [c \in Colors |-> IF c = "blue" THEN 0 ELSE 500]

\* C16 witness: a stored snapshot whose source had 0 deaths for green under
\* the key Green and no key for blue (both stored as 1), kills under the key
\* Red, and for red a quotient exactly between two hundredths (1 / 40).
C16_Witness ==
    \E m \in StoreMatchIds :
       /\ Len(Series("kdr", m)) > 0
       /\ live = LiveOfMixed(1, 40)
       /\ Series("kdr", m)[1].deaths = [c \in Colors |-> IF c = "red" THEN 40 ELSE 1]
       /\ Series("kdr", m)[1].kills["red"] = 1
       /\ Series("kdr", m)[1].kdr = [c \in Colors |->
                                       IF c = "red" THEN 3 ELSE IF c = "green" THEN 500 ELSE 0]

\* C17 (as stated): after every successful record for a match at time now, the
\* persisted series of that match holds no snapshot whose timestamp is older
\* than now - 7 days.
C17_NothingOlderThanAWeek ==
    [][\A k \in Kinds : \A m \in StoreMatchIds :
         appended'[k][m] # appended[k][m]
         => \A i \in 1..Len(Series(k, m)') :
               Series(k, m)'[i].timestamp >= now - RetentionDays * TicksPerDay]_vars

\* C18: a record call whose fetch fails or returns no match returns to its
\* caller without an exception, appends no snapshot and leaves both stores
\* (every match's series) exactly as they were.
C18_NoMatchIsNoOp ==
    [][\A t \in Threads :
         thr'[t].fetched \in NoMatchOutcomes
         => /\ thr'[t].pc = "returned"
            /\ thr'[t] # thr[t] => /\ store' = store
                                   /\ appended' = appended
                                   /\ lock' = lock]_vars

\* C18 witness: a record call whose fetch timed out has returned; the series
\* of its match still holds the one snapshot recorded before.
C18_Witness ==
    \E t \in Threads :
       /\ thr[t].pc = "returned"
       /\ thr[t].fetched = "Timeout"
       /\ Len(Series(thr[t].kind, thr[t].match_id)) = 1
       /\ appended[thr[t].kind][thr[t].match_id] = 1

\* --------------------------------------------------------------- the charts
\* The buckets of the last response, oldest first, with their 0-based index.
Answered == chart.status = "success"

BucketIds == 1..Len(chart.timeline)

\* The snapshots of the response's series that lie in its bucket b.
Found(b) ==
    {j \in 1..Len(chart.series) :
        /\ chart.timeline[b].bucket_start <= chart.series[j].timestamp
        /\ chart.series[j].timestamp < chart.timeline[b].bucket_end}

\* C11: bucket i (0 = oldest) of num_buckets buckets of width w covers
\* [now - (num_buckets - i) * w, now - (num_buckets - i - 1) * w), so that the
\* newest bucket ends at now, consecutive buckets are adjacent and the buckets
\* span the whole window.
C11_BucketIntervals ==
    Answered =>
        \A b \in BucketIds :
            LET n == NumBuckets(chart.window)
                w == BucketSize(chart.window)
                i == b - 1
            IN /\ chart.timeline[b].bucket_start = chart.now - Minutes((n - i) * w)
               /\ chart.timeline[b].bucket_end = chart.now - Minutes((n - i - 1) * w)

\* C12: a bucket that holds at least one snapshot of the series carries the
\* values of a snapshot with the greatest timestamp among those it holds, also
\* when the series is out of order or repeats a timestamp; a bucket that holds
\* none carries the fallback values and is stamped with its end.
C12_LatestOrFallback ==
    Answered =>
        \A b \in BucketIds :
            IF Found(b) # {}
            THEN \E j \in Found(b) :
                    /\ \A h \in Found(b) :
                          chart.series[h].timestamp <= chart.series[j].timestamp
                    /\ chart.timeline[b].values = Values(chart.series[j])
            ELSE /\ chart.timeline[b].values = chart.fallback
                 /\ chart.timeline[b].timestamp = chart.timeline[b].bucket_end

\* C13: the response holds exactly num_buckets buckets from the oldest to the
\* newest, one bucket width apart; the window fixes the count and the width
\* (6h: 24 of 15 minutes, 24h: 24 of 60, 7d: 28 of 360) and any other window
\* value gives the response of 6h.
C13_CountOrderAndWindow ==
    Answered =>
        LET n == CASE chart.window = "24h" -> 24 [] chart.window = "7d" -> 28 [] OTHER -> 24
            w == CASE chart.window = "24h" -> 60 [] chart.window = "7d" -> 360 [] OTHER -> 15
        IN /\ Len(chart.timeline) = n
           /\ \A b \in BucketIds \ {1} :
                 chart.timeline[b].bucket_start =
                    chart.timeline[b - 1].bucket_start + w * TicksPerMinute
           /\ chart.window \notin {"6h", "24h", "7d"} =>
                 chart.timeline =
                    Timeline(chart.kind, chart.now, chart.series, chart.fallback, "6h")

C13_Witness ==
    /\ Answered
    /\ chart.window = "30d"
    /\ \E b \in BucketIds : Found(b) # {}

C19_LoopRunsForever ==
    /\ (loop.failed # {}) ~> (loop.pc = "sleep")
    /\ (loop.pc = "sleep") ~> (loop.pc = "top")
    /\ []<>("fetch" \in loop.tried)
    /\ [](loop.pc = "sleep" /\ "fetch" \notin loop.failed =>
            /\ {"kdr", "activity", "enrich"} \subseteq loop.tried
            /\ "enrich" \notin loop.failed => "ledger" \in loop.tried)

C19_Witness ==
    /\ loop.pc = "sleep"
    /\ {"kdr", "activity", "ledger"} \subseteq loop.before
    /\ loop.tried = Stages
    /\ loop.failed = {}

\* ------------------------------------------------------------------ the locks
\* The locks a thread holds.
Held(t) ==
    {k \in Kinds : t \in lock[k]} \cup
    (IF Runs[t] \in sh \cup ex THEN {"ledger"} ELSE {})

\* The threads whose lock a thread is waiting for.
WaitsFor(t) ==
    (IF thr[t].pc = "built" THEN lock[thr[t].kind] \ {t} ELSE {}) \cup
    {u \in Threads \ {t} :
        \/ proc[Runs[t]].pc = "load_lock" /\ Runs[u] \in ex
        \/ proc[Runs[t]].pc = "save_lock" /\ Runs[u] \in sh \cup ex}

\* C20: no thread ever holds two of the K/D store's lock, the activity
\* store's lock and the ledger's file lock; a thread that holds one waits for
\* none, so the threads cannot wait for one another in a circle.
C20_OneLockAtATime ==
    \A t \in Threads :
        /\ Cardinality(Held(t)) <= 1
        /\ Held(t) # {} => WaitsFor(t) = {}

C20_Witness ==
    /\ Held("t1") = {"ledger"}
    /\ Held("t2") = {"kdr"}
    /\ appended["activity"][LiveMatchId] > 0
    /\ chart.status = "success"

\* ------------------------------------------------------------ remote fetches
\* C21: a fetch makes at most retries + 1 attempts and waits 2^attempt between
\* them; a transient failure (timeout, 5xx, connection error) reaches the
\* caller only after every retry was used, and no attempt follows a 4xx.
C21_TransientRetriedThenSurfaced ==
    /\ Len(req.answers) <= req.retries + 1
    /\ req.pc = "backoff" => req.wait_time = Pow2(req.attempt)
    /\ req.pc = "raised" =>
          /\ req.answer \in {"Timeout", "HTTP5xx", "ConnectionError"} =>
                Len(req.answers) = req.retries + 1
    /\ \A i \in 1..(Len(req.answers) - 1) : req.answers[i] \notin {"ok", "HTTP4xx"}

\* ------------------------------------------------------- the ledger's claims
NoDuplicates(seq) == \A i, j \in 1..Len(seq) : seq[i] = seq[j] => i = j

\* The guild claims of a ledger: <<match, team, guild ID, record>>.
GuildClaims(tracked) ==
    UNION {{<<m, c, g, tracked[m].teams[c].guilds[g]>> :
              g \in DOMAIN tracked[m].teams[c].guilds} :
                 m \in DOMAIN tracked, c \in Colors}

\* C22: in every ledger state no guild claim lists an objective type or a map
\* twice, and a (match, team, guild ID) has one claim, filed under its own ID:
\* a sighting that repeats an earlier one adds nothing.
C22_DistinctClaimSets ==
    \A gc \in GuildClaims(Ledger) :
        /\ NoDuplicates(gc[4].objective_types)
        /\ NoDuplicates(gc[4].maps_seen)
        /\ gc[4].id = gc[3]
        /\ \A other \in GuildClaims(Ledger) :
              (other[1] = gc[1] /\ other[2] = gc[2] /\ other[4].id = gc[4].id) => other = gc

C22_Witness ==
    /\ {MatchA1, MatchA2} \subseteq completed
    /\ "1-1" \in DOMAIN Ledger
    /\ "g1" \in DOMAIN Ledger["1-1"].teams["red"].guilds
    /\ Ledger["1-1"].teams["red"].guilds["g1"].objective_types = << "Keep", "Tower" >>
    /\ Ledger["1-1"].teams["red"].guilds["g1"].maps_seen = << "Center", "RedHome" >>

\* C23: when the write of update_match or cleanup_old_matches fails, the
\* records of the other matches, which the operation meant to keep, are still
\* in the ledger file as they were.
C23_FailureKeepsOtherMatches ==
    [][\A p \in Procs :
          (proc'[p].save_failed /\ ~proc[p].save_failed) =>
             \A m \in (DOMAIN Ledger \cap DOMAIN proc[p].tracked) \ {proc[p].call.match_data.id} :
                m \in DOMAIN Ledger' /\ Ledger'[m] = Ledger[m]]_vars

\* C24: a match that a cleanup_old_matches has removed, the cleanup having
\* returned, comes back into the ledger only through an update_match that
\* names it: no other operation writes the removed record back.
C24_RemovedStaysRemoved ==
    [][\A m \in MatchIds :
          (/\ \E p \in Procs :
                /\ proc[p].op = "cleanup_old_matches"
                /\ proc[p].pc = "done"
                /\ m \in expired
                /\ m \notin DOMAIN proc[p].tracked
             /\ m \notin DOMAIN Ledger
             /\ m \in DOMAIN Ledger')
          => \E q \in Procs :
                /\ proc[q].pc = "save_write"
                /\ proc[q].op = "update_match"
                /\ proc[q].call.match_data.id = m]_vars

\* C25: the bucket intervals of a response are non-empty and pairwise
\* disjoint, their ends increase strictly from the oldest to the newest, and
\* every snapshot stamped in the window [now - num_buckets * w, now) lies in
\* exactly one of them.
C25_BucketsPartitionWindow ==
    Answered =>
        LET n == NumBuckets(chart.window)
            w == BucketSize(chart.window)
            t == chart.timeline
        IN /\ \A b \in BucketIds : t[b].bucket_start < t[b].bucket_end
           /\ \A b \in BucketIds \ {1} :
                 /\ t[b - 1].bucket_end < t[b].bucket_end
                 /\ t[b - 1].bucket_end <= t[b].bucket_start
           /\ \A j \in 1..Len(chart.series) :
                 (/\ chart.now - Minutes(n * w) <= chart.series[j].timestamp
                  /\ chart.series[j].timestamp < chart.now)
                 => Cardinality({b \in BucketIds : j \in Found(b)}) = 1

\* C26: update_match for match ID A changes only A's record: when it has
\* returned, every other match that was tracked at the call and whose end_time
\* is missing, unparsable or not more than 7 days before now is in the ledger
\* with the record it had at the call, whether or not the cleanup ran.
C26_OtherRecordsUnchanged ==
    \A p \in Procs :
       UpdateReturned(p)
       => \A m \in DOMAIN proc[p].pre \ {proc[p].call.match_data.id} :
             (\/ proc[p].pre[m].end_time.kind # "time"
              \/ proc[p].pre[m].end_time.t >= now - DefaultDays * TicksPerDay)
             => /\ m \in DOMAIN Ledger
                /\ Ledger[m] = proc[p].pre[m]

\* C26 witness: an update_match of a tracked match has run the cleanup, which
\* removed an expired match; the match updated has a changed record, a third
\* match that ended less than 7 days ago and a match without end_time have
\* the records they had.
C26_Witness ==
    \E p \in Procs :
       /\ UpdateReturned(p)
       /\ Cardinality(DOMAIN proc[p].pre) > MaxTrackedBeforeCleanup
       /\ DOMAIN proc[p].pre \ DOMAIN Ledger # {}
       /\ LET id == proc[p].call.match_data.id
              pre == proc[p].pre
          IN /\ id \in DOMAIN pre
             /\ Ledger[id] # pre[id]
             /\ \E m \in DOMAIN pre \ {id} :
                   /\ pre[m].end_time.kind = "time"
                   /\ pre[m].end_time.t < now
                   /\ m \in DOMAIN Ledger /\ Ledger[m] = pre[m]

\* The fields of a TrackedMatch that creation sets for good.
Fixed(match) ==
    <<match.match_id, match.start_time, match.end_time, match.world_id, match.first_seen>>

\* C27: start_time, end_time, world_id and first_seen of a tracked match are
\* those of the call that created the record, and no step changes them while
\* the record stays in the ledger, whatever a later update_match carries.
C27_CreationFieldsKept ==
    [][\A m \in MatchIds :
         /\ (m \in DOMAIN Ledger /\ m \in DOMAIN Ledger')
              => Fixed(Ledger'[m]) = Fixed(Ledger[m])
         /\ (m \notin DOMAIN Ledger /\ m \in DOMAIN Ledger')
              => \E p \in Procs :
                    /\ proc[p].op = "update_match"
                    /\ proc[p].call.match_data.id = m
                    /\ Fixed(Ledger'[m]) = <<m, proc[p].call.match_data.start_time,
                                             proc[p].call.match_data.end_time,
                                             proc[p].call.world_id,
                                             proc[p].current_time>>
      ]_vars

\* C27 witness: update_match has returned for a match that was tracked, with
\* an input whose start_time, end_time and world_id all differ from the
\* record's; the record has its earlier four fields and a later last_updated.
C27_Witness ==
    \E p \in Procs :
       /\ UpdateReturned(p)
       /\ LET md == proc[p].call.match_data IN
          /\ md.id \in DOMAIN proc[p].pre
          /\ md.id \in DOMAIN Ledger
          /\ Fixed(Ledger[md.id]) = Fixed(proc[p].pre[md.id])
          /\ md.start_time # Ledger[md.id].start_time
          /\ md.end_time # Ledger[md.id].end_time
          /\ proc[p].call.world_id # Ledger[md.id].world_id
          /\ Ledger[md.id].first_seen < Ledger[md.id].last_updated
          /\ Ledger[md.id].last_updated = proc[p].current_time

\* Every record in the ledger has first_seen <= last_updated, and every guild
\* claim in it has first_seen <= last_seen.
TimesOrdered ==
    \A m \in DOMAIN Ledger :
       /\ Ledger[m].first_seen <= Ledger[m].last_updated
       /\ \A c \in Colors : \A g \in DOMAIN Ledger[m].teams[c].guilds :
             Ledger[m].teams[c].guilds[g].first_seen
               <= Ledger[m].teams[c].guilds[g].last_seen

\* Over a step that keeps a match in the ledger, no guild leaves a team and no
\* objective type or map type leaves a guild.
ClaimsKept ==
    \A m \in DOMAIN Ledger \cap DOMAIN Ledger' :
       \A c \in Colors : \A g \in DOMAIN Ledger[m].teams[c].guilds :
          /\ g \in DOMAIN Ledger'[m].teams[c].guilds
          /\ Range(Ledger[m].teams[c].guilds[g].objective_types)
               \subseteq Range(Ledger'[m].teams[c].guilds[g].objective_types)
          /\ Range(Ledger[m].teams[c].guilds[g].maps_seen)
               \subseteq Range(Ledger'[m].teams[c].guilds[g].maps_seen)

\* C28: in every reachable ledger state first_seen <= last_seen holds for
\* every guild claim and first_seen <= last_updated for every tracked match,
\* and while a match stays tracked its teams' guilds and each guild's
\* objective_types and maps_seen never shrink.
C28_OrderedAndGrowing == []TimesOrdered /\ [][ClaimsKept]_vars

\* C29: a step that changes a snapshot store is the save of a record call for
\* that store; it leaves the other store as it was, and in its own store the
\* series of every match ID but the one recorded (nothing is pruned from it).
C29_OnlyOwnSeriesChanges ==
    [][\A k \in Kinds :
         store'[k] # store[k]
         => \E t \in Threads :
               /\ thr[t].pc = "locked"
               /\ thr[t].kind = k
               /\ \A k2 \in Kinds \ {k} : store'[k2] = store[k2]
               /\ DOMAIN LoadHistory(store'[k])
                    = DOMAIN LoadHistory(store[k]) \cup {thr[t].match_id}
               /\ \A m2 \in DOMAIN LoadHistory(store[k]) \ {thr[t].match_id} :
                     LoadHistory(store'[k])[m2] = LoadHistory(store[k])[m2]
               /\ \A k2 \in Kinds : \A m2 \in StoreMatchIds :
                     <<k2, m2>> # <<k, thr[t].match_id>>
                     => pruned'[k2][m2] = pruned[k2][m2]
      ]_vars

\* C29 witness: a record call for one match has saved its store while the
\* store holds, untouched, the series of another match whose snapshots were
\* all older than the retention window when the call built its snapshot.
C29_Witness ==
    \E t \in Threads : \E m2 \in StoreMatchIds :
       LET k == thr[t].kind
           m == thr[t].match_id
       IN /\ thr[t].pc = "returned"
          /\ thr[t].fetched = "match"
          /\ m2 # m
          /\ Series(k, m) # << >>
          /\ Series(k, m2) # << >>
          /\ Retained(Series(k, m2), thr[t].snapshot.timestamp) = << >>

\* The stages an iteration has been through, by the position of the loop.
StagesInOrder ==
    /\ loop.pc = "kdr" => loop.tried = {"fetch"}
    /\ loop.pc = "activity" => loop.tried = {"fetch", "kdr"}
    /\ loop.pc = "enrich" => loop.tried = {"fetch", "kdr", "activity"}
    /\ loop.pc = "ledger" => loop.tried = {"fetch", "kdr", "activity", "enrich"}
    /\ loop.pc \in {"kdr", "activity", "enrich", "ledger"}
         => loop.failed \cap {"fetch", "enrich"} = {}
    /\ thr["t1"].pc # "idle" => loop.pc = thr["t1"].kind
    /\ proc["p1"].pc # "idle" => loop.pc = "ledger"

\* A record call that recorded nothing is followed by the next stage, and the
\* steps of enrichment and of the ledger update leave the stores alone.
StagesIndependent ==
    /\ ("kdr" \in loop'.failed /\ "kdr" \notin loop.failed) => loop'.pc = "activity"
    /\ ("activity" \in loop'.failed /\ "activity" \notin loop.failed)
         => loop'.pc = "enrich"
    /\ loop.pc \in {"enrich", "ledger"} => store' = store /\ appended' = appended

\* C30: in an iteration whose fetch succeeded the stages are attempted in the
\* order KDR record, activity record, enrichment, ledger update; a KDR record
\* that fails is followed by the activity record, which is carried through,
\* and by the enrichment; a ledger update once reached is carried through; and
\* no step of enrichment or of the ledger update changes a snapshot store.
C30_StagesOrderedAndIndependent ==
    /\ []StagesInOrder
    /\ [][StagesIndependent]_vars
    /\ ("kdr" \in loop.failed /\ loop.pc = "activity")
         ~> ("activity" \in loop.tried /\ loop.pc = "enrich")
    /\ (loop.pc = "ledger") ~> ("ledger" \in loop.tried)

\* C30 witness: an iteration is at its sleep in which the KDR record failed,
\* the activity record appended a snapshot that is in the store, and the
\* ledger update failed.
C30_Witness ==
    /\ loop.pc = "sleep"
    /\ loop.tried = Stages
    /\ loop.failed = {"kdr", "ledger"}
    /\ Series("activity", LiveMatchId) # << >>
    /\ Series("kdr", LiveMatchId) = << >>
    /\ appended["activity"][LiveMatchId] > 0

====
